---- MODULE Spec2Model ----
(***************************************************************************)
(* Model of litestar.security.jwt.token: the Token dataclass, its          *)
(* construction validator (__post_init__), Token.encode and Token.decode,  *)
(* driven by a caller that constructs (or receives) a token, encodes it,   *)
(* lets time pass and decodes it.                                          *)
(*                                                                         *)
(* Python values are modelled as tagged records of one shape, so that a    *)
(* dict is a function from key strings to values:                          *)
(*   t : "none" | "str" | "int" | "aware" | "naive" | "map"                *)
(*   s : the text of a str                                                 *)
(*   n : the number of an int; the wall-clock reading of a datetime, in    *)
(*       ticks (Ticks ticks make one second: the sub-second part of a      *)
(*       datetime is n % Ticks)                                            *)
(*   o : the UTC offset of an aware datetime, in seconds                   *)
(*   m : the entries of a dict, as a set of <<key, text>> pairs            *)
(***************************************************************************)
EXTENDS Integers, FiniteSets, Sequences, TLC

VARIABLES clock, pc, tok, wire, last

vars == <<clock, pc, tok, wire, last>>

----------------------------------------------------------------------------
(* Bounds *)

\* Ticks per second: the resolution of the clock below one second.
Ticks == 2
\* The clock runs from 0 to MaxClock ticks.
MaxClock == 3
\* The UTC offset, in seconds, of the zone the machine runs in.
LocalOffset == 1
\* Ticks that may pass between two clock readings of one decode call.
MaxDrift == 1

----------------------------------------------------------------------------
(* Python values *)

VNone == [t |-> "none", s |-> "", n |-> 0, o |-> 0, m |-> {}]

VStr(x) == [t |-> "str", s |-> x, n |-> 0, o |-> 0, m |-> {}]

VInt(i) == [t |-> "int", s |-> "", n |-> i, o |-> 0, m |-> {}]

VMap(entries) == [t |-> "map", s |-> "", n |-> 0, o |-> 0, m |-> entries]

\* An aware datetime showing instant `inst` (ticks since the epoch) at UTC offset `off` seconds.
Aware(inst, off) == [t |-> "aware", s |-> "", n |-> inst + off * Ticks, o |-> off, m |-> {}]

\* A naive datetime whose wall-clock fields read `wall` ticks.
Naive(wall) == [t |-> "naive", s |-> "", n |-> wall, o |-> 0, m |-> {}]

IsDatetime(v) == v.t \in {"aware", "naive"}

\* datetime.now(timezone.utc) when the clock reads `now` ticks.
UtcNow(now) == Aware(now, 0)

\* datetime.timestamp(): the instant, in ticks. A naive datetime is read as local time.
Timestamp(v) == IF v.t = "aware" THEN v.n - v.o * Ticks ELSE v.n - LocalOffset * Ticks

\* datetime.fromtimestamp(secs) without tz: a naive datetime in local time.
FromTimestampLocal(secs) == Naive((secs + LocalOffset) * Ticks)

\* datetime.fromtimestamp(secs, tz=timezone.utc)
FromTimestamp(secs) == Aware(secs * Ticks, 0)

\* value.replace(microsecond=0)
ReplaceMicrosecond0(v) == [v EXCEPT !.n = v.n - (v.n % Ticks)]

\* value.astimezone(timezone.utc): the same instant at offset 0.
AsTimezoneUtc(v) == Aware(Timestamp(v), 0)

\* _normalize_datetime: line 30 calls astimezone and binds its result to
\* nothing, so the value keeps its own offset; line 32 cuts the sub-second part.
_normalize_datetime(value) ==
    LET converted == IF value.t = "aware" THEN AsTimezoneUtc(value) ELSE value
    IN  ReplaceMicrosecond0(value)

\* Python's == on two datetimes: instants when both are aware, wall-clock fields
\* when both are naive, never equal when one is aware and the other naive.
DatetimeEq(a, b) ==
    IF a.t = "aware" /\ b.t = "aware" THEN Timestamp(a) = Timestamp(b)
    ELSE a.t = b.t /\ a.n = b.n

----------------------------------------------------------------------------
(* Token *)

FieldNames == {"exp", "sub", "iat", "iss", "aud", "jti", "extras"}

MkToken(exp, sub, iat, iss, aud, jti, extras) ==
    [exp |-> exp, sub |-> sub, iat |-> iat, iss |-> iss, aud |-> aud, jti |-> jti,
     extras |-> extras]

\* No Token object.
NoToken == MkToken(VNone, VNone, VNone, VNone, VNone, VNone, VNone)

SubMessage == "sub must be a string with a length greater than 0"

ExpMessage == "exp value must be a datetime in the future"

IatMessage == "iat must be a current or past time"

\* The iat test accepting every datetime.
IatOkAlways(t, now) == IsDatetime(t.iat)

\* The exp test of __post_init__ (lines 58-61): exp is a datetime whose
\* normalized timestamp is not before the normalized current time.
ExpOk(t, now) ==
    /\ IsDatetime(t.exp)
    /\ Timestamp(_normalize_datetime(t.exp)) >= Timestamp(_normalize_datetime(UtcNow(now)))

\* The iat test of __post_init__ (lines 66-69): iat is a datetime whose
\* normalized timestamp is not after the normalized current time.
IatOk(t, now) ==
    /\ IsDatetime(t.iat)
    /\ Timestamp(_normalize_datetime(t.iat)) <= Timestamp(_normalize_datetime(UtcNow(now)))

\* Token.__post_init__ run when the clock reads `now`: the exception raised
\* ("" when none) and the token with exp and iat replaced by their normalized values.
PostInit(t, now) ==
    IF t.sub.s = ""
    THEN [raised |-> "ImproperlyConfiguredException", msg |-> SubMessage, token |-> NoToken]
    ELSE IF ~ExpOk(t, now)
    THEN [raised |-> "ImproperlyConfiguredException", msg |-> ExpMessage, token |-> NoToken]
    ELSE IF ~IatOk(t, now)
    THEN [raised |-> "ImproperlyConfiguredException", msg |-> IatMessage, token |-> NoToken]
    ELSE [raised |-> "", msg |-> "",
          token |-> [t EXCEPT !.exp = _normalize_datetime(t.exp),
                              !.iat = _normalize_datetime(t.iat)]]

\* The iat field's default_factory.
DefaultIat(now) == _normalize_datetime(UtcNow(now))

\* Token(exp=..., sub=..., iat=... or omitted (VNone), ...) when the clock reads `now`.
NewToken(args, now) ==
    PostInit([args EXCEPT !.iat = IF args.iat = VNone THEN DefaultIat(now) ELSE args.iat], now)

\* dataclass __eq__: the field tuples compared with Python's ==.
TokenEq(a, b) ==
    /\ DatetimeEq(a.exp, b.exp)
    /\ DatetimeEq(a.iat, b.iat)
    /\ a.sub = b.sub /\ a.iss = b.iss /\ a.aud = b.aud /\ a.jti = b.jti
    /\ a.extras = b.extras

----------------------------------------------------------------------------
(* The signing library (jwt.encode / jwt.decode) as the code calls it *)

Secrets == {"s1", "s2"}

Algorithms == {"HS256", "RS256", "XX999"}

\* The algorithms the library implements.
Supported == {"HS256", "RS256"}

\* Whether the library accepts `key` for `alg`: the secrets are plain shared
\* secrets, which an RSA algorithm cannot parse as a PEM key.
KeyFits(key, alg) == alg = "HS256"

EmptyDict == [k \in {} |-> VNone]

NoWire == [claims |-> EmptyDict, key |-> "", alg |-> "", origin |-> NoToken, src |-> "none"]

\* calendar.timegm(value.utctimetuple()): whole seconds since the epoch; the
\* fields of a naive datetime are taken to be UTC already.
TimegmUtc(v) == IF v.t = "aware" THEN (v.n - v.o * Ticks) \div Ticks ELSE v.n \div Ticks

\* The JSON claims jwt.encode signs: datetime values of exp and iat become epoch seconds.
JsonClaims(payload) ==
    [k \in DOMAIN payload |->
        IF k \in {"exp", "iat"} /\ IsDatetime(payload[k])
        THEN VInt(TimegmUtc(payload[k])) ELSE payload[k]]

\* jwt.encode(payload, key, algorithm): the exception raised ("" when none) and
\* the signed token.
JwtEncode(payload, key, alg) ==
    IF alg \notin Supported
    THEN [raised |-> "NotImplementedError", claims |-> EmptyDict]
    ELSE IF ~KeyFits(key, alg)
    THEN [raised |-> "InvalidKeyError", claims |-> EmptyDict]
    ELSE [raised |-> "", claims |-> JsonClaims(payload)]

\* jwt.decode(jwt, key, algorithms=[algorithm], issuer, audience,
\* options={"verify_aud": verify_aud}) when the clock reads `now`. issuer and
\* audience are sets, the empty set standing for None. Every error is an
\* InvalidTokenError (DecodeError is one of its subclasses).
JwtDecode(w, key, algorithm, issuer, audience, verify_aud, now) ==
    LET c == w.claims
        bad == [raised |-> "InvalidTokenError", payload |-> EmptyDict]
    IN  IF w.alg # algorithm \/ w.key # key THEN bad
        ELSE IF "iat" \in DOMAIN c /\ c["iat"].t # "int" THEN bad
        ELSE IF "exp" \in DOMAIN c /\ c["exp"].t # "int"
        THEN [raised |-> "DecodeError", payload |-> EmptyDict]
        ELSE IF "exp" \in DOMAIN c /\ c["exp"].n * Ticks <= now THEN bad
        ELSE IF issuer # {} /\ ("iss" \notin DOMAIN c \/ c["iss"].t # "str"
                                  \/ c["iss"].s \notin issuer) THEN bad
        ELSE IF verify_aud /\ audience = {} /\ "aud" \in DOMAIN c THEN bad
        ELSE IF verify_aud /\ audience # {}
                /\ ("aud" \notin DOMAIN c \/ c["aud"].t # "str" \/ c["aud"].s \notin audience)
        THEN bad
        ELSE [raised |-> "", payload |-> c]

----------------------------------------------------------------------------
(* Token.encode *)

\* asdict(self): the fields by name, extras as a nested dict.
AsDict(t) == [k \in FieldNames |-> t[k]]

\* The payload with every field kept, None or not.
EncodePayloadAll(t) == AsDict(t)

\* {k: v for k, v in asdict(self).items() if v is not None}
EncodePayload(t) ==
    LET d == AsDict(t) IN [k \in {k \in DOMAIN d : d[k] # VNone} |-> d[k]]

\* The exceptions encode catches and re-raises as ImproperlyConfiguredException.
EncodeCaught == {"DecodeError", "NotImplementedError"}

\* Token.encode(secret, algorithm)
EncodeCall(t, secret, algorithm) ==
    LET r == JwtEncode(EncodePayload(t), secret, algorithm)
    IN  [raised |-> IF r.raised \in EncodeCaught THEN "ImproperlyConfiguredException"
                    ELSE r.raised,
         msg |-> IF r.raised \in EncodeCaught THEN "Failed to encode token" ELSE "",
         payload |-> EncodePayload(t),
         claims |-> r.claims]

----------------------------------------------------------------------------
(* Token.decode *)

\* options={"verify_aud": ...} with the check always on.
VerifyAudAlways(audience) == TRUE

\* bool(audience)
VerifyAud(audience) == audience # {}

\* The keys moved into extras: payload.keys() - {f.name for f in dataclasses.fields(cls)}
ExtraFields(payload) == DOMAIN payload \ FieldNames

\* Nothing is moved: the extras container is taken as it is.
MoveExtrasNone(payload) ==
    IF "extras" \in DOMAIN payload THEN payload
    ELSE [k \in DOMAIN payload \cup {"extras"} |->
            IF k = "extras" THEN VMap({}) ELSE payload[k]]

\* extras = payload.setdefault("extras", {}); for key in extra_fields:
\* extras[key] = payload.pop(key)
MoveExtras(payload) ==
    LET moved == ExtraFields(payload)
        held == IF "extras" \in DOMAIN payload THEN payload["extras"].m ELSE {}
        kept == {e \in held : e[1] \notin moved}
        extras == kept \cup {<<k, payload[k].s>> : k \in moved}
    IN  [k \in (DOMAIN payload \ moved) \cup {"extras"} |->
            IF k = "extras" THEN VMap(extras) ELSE payload[k]]

\* Whether msgspec.convert accepts the value for the field; a key that names
\* no field is ignored.
FieldTypeOk(k, v) ==
    CASE k \in {"exp", "iat"} -> IsDatetime(v)
      [] k = "sub" -> v.t = "str"
      [] k \in {"iss", "aud", "jti"} -> v.t \in {"str", "none"}
      [] k = "extras" -> v.t = "map"
      [] OTHER -> TRUE

\* msgspec.convert(payload, cls, strict=False) when the clock reads `now`:
\* ValidationError for a missing required field or a value of the wrong type,
\* else the dataclass is built and __post_init__ runs.
Convert(payload, now) ==
    IF ~({"exp", "sub"} \subseteq DOMAIN payload)
       \/ \E k \in DOMAIN payload : ~FieldTypeOk(k, payload[k])
    THEN [raised |-> "ValidationError", msg |-> "", token |-> NoToken]
    ELSE PostInit([k \in FieldNames |->
                      IF k \in DOMAIN payload THEN payload[k]
                      ELSE IF k = "extras" THEN VMap({}) ELSE VNone], now)

\* The exceptions decode catches and re-raises as NotAuthorizedException.
DecodeCaught ==
    {"KeyError", "DecodeError", "InvalidTokenError", "ImproperlyConfiguredException"}

\* Lines 114-120 of decode on the verified payload.
DecodeBody(payload, now) ==
    IF "exp" \notin DOMAIN payload \/ "iat" \notin DOMAIN payload
    THEN [raised |-> "KeyError", msg |-> "", token |-> NoToken]
    ELSE Convert(MoveExtras([payload EXCEPT !["exp"] = FromTimestamp(payload["exp"].n),
                                            !["iat"] = FromTimestamp(payload["iat"].n)]),
                 now)

\* Token.decode(encoded_token, secret, algorithm, audience, issuer): the library
\* reads the clock at `now`, __post_init__ reads it at `now2`.
DecodeCall(w, secret, algorithm, audience, issuer, now, now2) ==
    LET v == JwtDecode(w, secret, algorithm, issuer, audience, VerifyAud(audience), now)
        r == IF v.raised # "" THEN [raised |-> v.raised, msg |-> "", token |-> NoToken]
             ELSE DecodeBody(v.payload, now2)
    IN  [raised |-> IF r.raised \in DecodeCaught THEN "NotAuthorizedException"
                    ELSE r.raised,
         msg |-> IF r.raised \in DecodeCaught THEN "Invalid token" ELSE r.msg,
         token |-> r.token]

----------------------------------------------------------------------------
(* The caller: inputs and steps *)

\* UTC offsets (seconds) of the aware datetimes handed in.
Offsets == {0, 1}

\* The timestamps handed to the constructor.
Datetimes ==
    {Aware(i, o) : i \in 0..(MaxClock + Ticks), o \in Offsets}
        \cup {Naive(w) : w \in 0..(MaxClock + Ticks)}

Subjects == {VStr(""), VStr("alice")}

Issuers == {VNone, VStr("litestar")}

Audiences == {VNone, VStr("foo")}

TokenIds == {VNone, VStr("id1")}

ExtrasMaps == {VMap({}), VMap({<<"role", "admin">>})}

\* A key left out of a dict.
Absent == [t |-> "absent", s |-> "", n |-> 0, o |-> 0, m |-> {}]

\* The dict holding the entries of `full` that are not Absent.
Dict(full) == [k \in {k \in DOMAIN full : full[k] # Absent} |-> full[k]]

\* The claims of tokens signed by some other party that holds secret "s1".
ForeignClaims ==
    {Dict([exp |-> e, iat |-> i, sub |-> s, iss |-> is, aud |-> a, extras |-> x, role |-> r]) :
        e \in {Absent} \cup {VInt(n) : n \in 0..((MaxClock + Ticks) \div Ticks)},
        i \in {Absent} \cup {VInt(n) : n \in 0..(MaxClock \div Ticks)},
        s \in {Absent, VStr(""), VStr("alice")},
        is \in {Absent, VStr("litestar"), VInt(7)},
        a \in {Absent, VStr("foo")},
        x \in {Absent, VMap({<<"role", "user">>, <<"sub", "bob">>})},
        r \in {Absent, VStr("admin")}}

\* What decode is asked to accept.
AudienceArgs == {{}, {"foo"}, {"bar"}}

IssuerArgs == {{}, {"litestar"}}

NoCall ==
    [op |-> "none", raised |-> "", msg |-> "", now |-> 0, now2 |-> 0, args |-> NoToken,
     payload |-> EmptyDict, secret |-> "", alg |-> "", audience |-> {}, issuer |-> {},
     verify_aud |-> FALSE, ret |-> NoToken]

Init ==
    /\ clock = 0
    /\ pc = "idle"
    /\ tok = NoToken
    /\ wire = NoWire
    /\ last = NoCall

\* Time passes: before the token is made, and while the token string is in
\* flight (encode does not read the clock).
Tick ==
    /\ pc \in {"idle", "sent"}
    /\ clock < MaxClock
    /\ clock' = clock + 1
    /\ UNCHANGED <<pc, tok, wire, last>>

\* The application constructs a Token.
Construct ==
    /\ pc = "idle"
    /\ \E exp \in Datetimes, sub \in Subjects, iat \in Datetimes \cup {VNone},
          iss \in Issuers, aud \in Audiences, jti \in TokenIds, extras \in ExtrasMaps :
         LET args == MkToken(exp, sub, iat, iss, aud, jti, extras)
             r == NewToken(args, clock)
         IN  /\ last' = [NoCall EXCEPT !.op = "construct", !.raised = r.raised, !.msg = r.msg,
                                       !.now = clock, !.now2 = clock, !.args = args,
                                       !.ret = r.token]
             /\ tok' = r.token
             /\ pc' = IF r.raised = "" THEN "built" ELSE "done"
    /\ UNCHANGED <<clock, wire>>

\* Another party issues a signed token.
Receive ==
    /\ pc = "idle"
    /\ \E c \in ForeignClaims :
         wire' = [claims |-> c, key |-> "s1", alg |-> "HS256", origin |-> NoToken,
                  src |-> "foreign"]
    /\ pc' = "sent"
    /\ UNCHANGED <<clock, tok, last>>

\* The application encodes the Token it holds.
Encode ==
    /\ pc \in {"built", "decoded"}
    /\ \E secret \in Secrets, algorithm \in Algorithms :
         LET r == EncodeCall(tok, secret, algorithm)
         IN  /\ last' = [NoCall EXCEPT !.op = "encode", !.raised = r.raised, !.msg = r.msg,
                                       !.now = clock, !.now2 = clock, !.args = tok,
                                       !.payload = r.payload, !.secret = secret,
                                       !.alg = algorithm]
             /\ wire' = IF r.raised = ""
                        THEN [claims |-> r.claims, key |-> secret, alg |-> algorithm,
                              origin |-> tok, src |-> pc]
                        ELSE NoWire
             /\ pc' = IF r.raised = "" THEN "sent" ELSE "done"
    /\ UNCHANGED <<clock, tok>>

\* The application decodes the token string in flight. The library reads the
\* clock first; when it accepts the token, __post_init__ reads the clock again,
\* up to MaxDrift ticks later.
Decode ==
    /\ pc = "sent"
    /\ \E secret \in Secrets, algorithm \in Algorithms,
          audience \in AudienceArgs, issuer \in IssuerArgs,
          now2 \in clock..(clock + MaxDrift) :
         LET r == DecodeCall(wire, secret, algorithm, audience, issuer, clock, now2)
         IN  /\ now2 <= MaxClock
             /\ now2 # clock =>
                  JwtDecode(wire, secret, algorithm, issuer, audience,
                            VerifyAud(audience), clock).raised = ""
             /\ clock' = now2
             /\ last' = [NoCall EXCEPT !.op = "decode", !.raised = r.raised, !.msg = r.msg,
                                       !.now = clock, !.now2 = now2,
                                       !.payload = wire.claims, !.secret = secret,
                                       !.alg = algorithm, !.audience = audience,
                                       !.issuer = issuer,
                                       !.verify_aud = VerifyAud(audience),
                                       !.ret = r.token]
             /\ tok' = r.token
             /\ pc' = IF r.raised = "" THEN "decoded" ELSE "done"
    /\ UNCHANGED wire

Next == Tick \/ Construct \/ Receive \/ Encode \/ Decode

Spec == Init /\ [][Next]_vars

----------------------------------------------------------------------------
(* Claims *)

\* A tick count cut to the whole second it lies in.
WholeSecond(ticks) == ticks - (ticks % Ticks)

Constructed == last.op = "construct"

Encoded == last.op = "encode"

Decoded == last.op = "decode"

\* The decode call was given the token string that encode made of wire.origin,
\* with the secret and algorithm it was encoded with, no audience and no issuer,
\* and wire.origin.exp is still in the future when decode returns.
RoundTrip ==
    /\ Decoded
    /\ wire.src \in {"built", "decoded"}
    /\ last.secret = wire.key /\ last.alg = wire.alg
    /\ last.audience = {} /\ last.issuer = {}
    /\ Timestamp(wire.origin.exp) > last.now2

\* C1 as stated: a Token whose exp, cut to the whole second, is equal to or
\* before the current time, cut the same way, is never constructed:
\* construction raises ImproperlyConfiguredException.
C1_ExpNotAfterNowRejected ==
    (Constructed /\ WholeSecond(Timestamp(last.args.exp)) <= WholeSecond(last.now))
        => last.raised = "ImproperlyConfiguredException"

\* C2 as stated: every decode call that does not return a Token raises
\* NotAuthorizedException("Invalid token") and nothing else.
C2_DecodeFailsOnlyNotAuthorized ==
    (Decoded /\ last.raised # "")
        => /\ last.raised = "NotAuthorizedException"
           /\ last.msg = "Invalid token"
           /\ last.ret = NoToken

\* C3 as stated: decoding what encode made of a constructed Token, naive or
\* aware, with the same secret and algorithm while its exp is in the future,
\* succeeds and returns a Token equal to it.
C3_RoundTripAnyTimestamps ==
    RoundTrip => (last.raised = "" /\ TokenEq(last.ret, wire.origin))

\* C3 amended: the round trip returns an equal Token when the Token's exp and
\* iat are timezone-aware.
C3_RoundTripAware ==
    (RoundTrip /\ wire.origin.exp.t = "aware" /\ wire.origin.iat.t = "aware")
        => (last.raised = "" /\ TokenEq(last.ret, wire.origin))

C3_Witness ==
    /\ RoundTrip
    /\ wire.origin.exp.t = "aware" /\ wire.origin.exp.o # 0
    /\ wire.origin.iat.t = "aware"
    /\ wire.origin.extras.m # {} /\ wire.origin.aud # VNone /\ wire.origin.iss = VNone
    /\ last.now > 0
    /\ last.raised = "" /\ TokenEq(last.ret, wire.origin)

\* C4: decode asks the library to verify the audience exactly when the caller
\* gave a non-empty audience; without one, the encoded form of a Token with
\* aud = "foo" decodes; with audience {"bar"} a token whose aud is "foo" is
\* refused with NotAuthorizedException.
C4_AudienceCheckedIffGiven ==
    /\ Decoded => (last.verify_aud <=> last.audience # {})
    /\ (RoundTrip /\ wire.origin.aud = VStr("foo")
          /\ wire.origin.exp.t = "aware" /\ wire.origin.iat.t = "aware")
         => last.raised = ""
    /\ (Decoded /\ last.audience = {"bar"} /\ "aud" \in DOMAIN last.payload
          /\ last.payload["aud"] = VStr("foo"))
         => last.raised = "NotAuthorizedException"

C4_Witness ==
    /\ RoundTrip
    /\ wire.origin.aud = VStr("foo")
    /\ last.raised = "" /\ last.ret.aud = VStr("foo")
    /\ ~last.verify_aud

\* C5 as stated: the mapping encode hands to the signer holds each named field
\* exactly when it is not None, holds every entry of extras as a top-level key,
\* and holds no None.
C5_PayloadFlat ==
    Encoded =>
        /\ \A k \in FieldNames \ {"extras"} :
             k \in DOMAIN last.payload <=> last.args[k] # VNone
        /\ \A e \in last.args.extras.m :
             e[1] \in DOMAIN last.payload /\ last.payload[e[1]] = VStr(e[2])
        /\ \A k \in DOMAIN last.payload : last.payload[k] # VNone

\* C5 amended: the mapping holds each named field exactly when it is not None,
\* each with the field's value, holds extras as one nested mapping under the
\* key "extras" and none of its entries as a top-level key, and holds no None.
C5_PayloadNestsExtras ==
    Encoded =>
        /\ DOMAIN last.payload =
             {k \in FieldNames \ {"extras"} : last.args[k] # VNone} \cup {"extras"}
        /\ \A k \in DOMAIN last.payload :
             last.payload[k] = last.args[k] /\ last.payload[k] # VNone

C5_Witness ==
    /\ Encoded
    /\ last.args.iss = VNone /\ last.args.jti = VNone /\ last.args.aud = VStr("foo")
    /\ last.args.extras = VMap({<<"role", "admin">>})
    /\ DOMAIN last.payload = {"exp", "sub", "iat", "aud", "extras"}
    /\ last.payload["extras"] = VMap({<<"role", "admin">>})

\* C6 as stated: whenever encode does not return a token string it raises
\* ImproperlyConfiguredException("Failed to encode token") and nothing else.
C6_EncodeFailsOnlyImproperlyConfigured ==
    (Encoded /\ last.raised # "")
        => /\ last.raised = "ImproperlyConfiguredException"
           /\ last.msg = "Failed to encode token"

\* C7 as stated: the exp and iat stored on a constructed Token are in UTC when
\* the value given was timezone-aware, at the same instant cut to the whole
\* second, and have no sub-second part.
C7_StoredTimesUtcWholeSeconds ==
    (Constructed /\ last.raised = "") =>
        \A k \in {"exp", "iat"} :
            LET given == IF last.args[k] = VNone THEN UtcNow(last.now) ELSE last.args[k]
                kept == last.ret[k]
            IN  /\ kept.n % Ticks = 0
                /\ Timestamp(kept) = WholeSecond(Timestamp(given))
                /\ given.t = "aware" => (kept.t = "aware" /\ kept.o = 0)

\* C8 as stated: a Token whose iat is after the current time, by however
\* little, is never constructed; with iat omitted it is the normalized current
\* time and construction does not fail on iat.
C8_IatAfterNowRejected ==
    /\ (Constructed /\ last.args.iat # VNone /\ Timestamp(last.args.iat) > last.now)
         => last.raised = "ImproperlyConfiguredException"
    /\ (Constructed /\ last.args.iat = VNone)
         => /\ last.msg # IatMessage
            /\ last.raised = "" => last.ret.iat = Aware(WholeSecond(last.now), 0)

\* C8 amended: a Token whose iat, cut to the whole second, is after the current
\* time, cut the same way, is never constructed; an iat after the current time
\* within the same whole second does not fail the iat check; with iat omitted it
\* is the normalized current time and construction does not fail on iat.
C8_IatAfterNowRejectedBySecond ==
    /\ (Constructed /\ last.args.iat # VNone
          /\ WholeSecond(Timestamp(last.args.iat)) > WholeSecond(last.now))
         => last.raised = "ImproperlyConfiguredException"
    /\ (Constructed /\ last.args.iat # VNone
          /\ WholeSecond(Timestamp(last.args.iat)) <= WholeSecond(last.now))
         => last.msg # IatMessage
    /\ (Constructed /\ last.args.iat = VNone)
         => /\ last.msg # IatMessage
            /\ last.raised = "" => last.ret.iat = Aware(WholeSecond(last.now), 0)

C8_Witness ==
    /\ Constructed
    /\ last.args.iat # VNone
    /\ WholeSecond(Timestamp(last.args.iat)) > WholeSecond(last.now)
    /\ last.raised = "ImproperlyConfiguredException" /\ last.msg = IatMessage

\* C9: a decoded Token's extras hold every payload key that names no field,
\* with its value, and besides these only what the payload's extras container
\* held; its named fields are the payload's named claims; and decoding the
\* encoded form of a decoded Token returns the same extras.
C9_ExtrasPartition ==
    (Decoded /\ last.raised = "") =>
        LET p == last.payload
            held == IF "extras" \in DOMAIN p THEN p["extras"].m ELSE {}
        IN  /\ \A k \in DOMAIN p \ FieldNames : <<k, p[k].s>> \in last.ret.extras.m
            /\ \A e \in last.ret.extras.m :
                 \/ e[1] \in DOMAIN p \ FieldNames /\ e[2] = p[e[1]].s
                 \/ e[1] \notin DOMAIN p \ FieldNames /\ e \in held
            /\ \A k \in {"sub", "iss", "aud", "jti"} :
                 last.ret[k] = IF k \in DOMAIN p THEN p[k] ELSE VNone
            /\ \A k \in {"exp", "iat"} :
                 last.ret[k].t = "aware" /\ Timestamp(last.ret[k]) = p[k].n * Ticks
            /\ wire.src = "decoded" => last.ret.extras = wire.origin.extras

C9_Witness ==
    /\ Decoded /\ last.raised = ""
    /\ wire.src = "decoded"
    /\ <<"role", "admin">> \in last.ret.extras.m
    /\ "role" \notin DOMAIN last.payload

\* C10 as stated: every Token decode returns has a non-empty sub, an exp
\* strictly after the current time and an iat not after it, all cut to whole
\* seconds, at the time decode returns.
C10_DecodedTokenValidNow ==
    (Decoded /\ last.raised = "") =>
        /\ last.ret.sub.s # ""
        /\ Timestamp(last.ret.exp) > WholeSecond(last.now2)
        /\ Timestamp(last.ret.iat) <= WholeSecond(last.now2)

====
